---- MODULE Spec2Model ----
(***************************************************************************)
(* Flowgen: prompt -> cache check -> LLM call with retry -> code           *)
(* extraction -> render -> persist -> log.                                 *)
(*                                                                         *)
(* Text is a sequence of tokens.  A token is a TLA+ string; " " and "\n"   *)
(* are the whitespace tokens, Fence is a code fence, every other token is  *)
(* a word or a punctuation mark.  Character counts are Len of the tokens.  *)
(***************************************************************************)
EXTENDS Integers, Sequences, FiniteSets, TLC

\* Python's None in an Optional[int] / Optional[UUID] field.
None == 0 - 1

----------------------------------------------------------------------------
\* Text helpers: str.strip, str.lower, str.split, re.search

\* The triple backtick that opens and closes a markdown code block.
Fence == "<fence>"

IsSpace(t) == t \in {" ", "\n"}

\* str.lower() of one token.
LowerTok(t) ==
  CASE t = "Draw" -> "draw"
    [] t = "Flow" -> "flow"
    [] t = "Net" -> "net"
    [] t = "Digraph" -> "digraph"
    [] t = "GANTT" -> "gantt"
    [] t = "SVG" -> "svg"
    [] t = "Dot" -> "dot"
    [] OTHER -> t

\* str.title() of one token.
TitleTok(t) ==
  CASE t = "draw" -> "Draw"
    [] t = "flow" -> "Flow"
    [] t = "net" -> "Net"
    [] OTHER -> t

Lower(s) == [i \in 1..Len(s) |-> LowerTok(s[i])]

RECURSIVE LStrip(_)
LStrip(s) == IF s # <<>> /\ IsSpace(Head(s)) THEN LStrip(Tail(s)) ELSE s

RECURSIVE RStrip(_)
RStrip(s) ==
  IF s # <<>> /\ IsSpace(s[Len(s)]) THEN RStrip(SubSeq(s, 1, Len(s) - 1)) ELSE s

\* str.strip()
Strip(s) == RStrip(LStrip(s))

\* len(str): number of characters
RECURSIVE CharLen(_)
CharLen(s) == IF s = <<>> THEN 0 ELSE Len(Head(s)) + CharLen(Tail(s))

\* str.count(tok)
Count(s, t) == Cardinality({i \in 1..Len(s) : s[i] = t})

\* str.split(): the words of s, in order
Words(s) == SelectSeq(s, LAMBDA t : ~IsSpace(t))

\* " ".join(ws)
RECURSIVE JoinSp(_)
JoinSp(ws) ==
  IF Len(ws) <= 1 THEN ws ELSE <<Head(ws), " ">> \o JoinSp(Tail(ws))

Min(S) == CHOOSE x \in S : \A y \in S : x <= y
Max(S) == CHOOSE x \in S : \A y \in S : x >= y

\* re.search of the code-fence pattern (fence, optional tag, whitespace run
\* ending in a newline, lazy group, newline, fence) with re.DOTALL, started
\* at the fence s[i]: the whitespace run keeps the last newline that still
\* leaves a closing newline+fence behind it, and the lazy group runs up to
\* the first such closing.  The result is the pair of indexes <<first, last>>
\* of group(1), or <<>> when there is no match.
FenceAt(s, i, tags) ==
  LET a  == IF i + 1 <= Len(s) /\ s[i + 1] \in tags THEN i + 2 ELSE i + 1
      ws == {j \in a..Len(s) : \A m \in a..j : IsSpace(s[m])}
      cl(j) == {k \in (j + 1)..(Len(s) - 1) : s[k] = "\n" /\ s[k + 1] = Fence}
      js == {j \in ws : s[j] = "\n" /\ cl(j) # {}}
  IN  IF s[i] = Fence /\ js # {}
        THEN <<Max(js) + 1, Min(cl(Max(js))) - 1>>
        ELSE <<>>

\* re.search: the leftmost position at which the pattern matches
FenceSearch(s, tags) ==
  LET is == {i \in 1..Len(s) : FenceAt(s, i, tags) # <<>>}
  IN  IF is = {} THEN <<>> ELSE FenceAt(s, Min(is), tags)

\* match.group(1).strip() if the fence is found, else llm_response.strip()
FencedOrWhole(s, tags) ==
  LET m == FenceSearch(s, tags)
  IN  IF m # <<>> THEN Strip(SubSeq(s, m[1], m[2])) ELSE Strip(s)

----------------------------------------------------------------------------
\* app/utils/hash_utils.py

\* Mutant: the prompt is hashed as given, without strip() and lower().
hash_prompt_raw(prompt, format, layout) ==
  prompt \o <<"|", LowerTok(format), "|", LowerTok(layout)>>

\* SHA-256 is taken to be injective on the text it digests, so the digest is
\* represented by that text: the normalized prompt, format and layout joined
\* with "|".
hash_prompt(prompt, format, layout) ==
  LET normalized_prompt == Lower(Strip(prompt))
      normalized_format == LowerTok(format)
      normalized_layout == LowerTok(layout)
  IN  normalized_prompt \o <<"|", normalized_format, "|", normalized_layout>>

----------------------------------------------------------------------------
\* app/services/llm_service.py: extraction and fallback generators

\* re.search(r'\b(di)?graph\b', code, re.IGNORECASE)
HasGraphToken(code) ==
  \E i \in 1..Len(code) : LowerTok(code[i]) \in {"graph", "digraph"}

\* re.search(r'\bgantt\b', code, re.IGNORECASE)
HasGanttToken(code) == \E i \in 1..Len(code) : LowerTok(code[i]) = "gantt"

StartsWbs(code) == code # <<>> /\ Head(code) \in {"@startwbs", "@startuml"}
EndsWbs(code) == code # <<>> /\ code[Len(code)] \in {"@endwbs", "@enduml"}

\* Each extractor yields [ok, code, error]; ok = FALSE is the raised
\* exception, of class error.
Extracted(ok, code) ==
  [ok |-> ok, code |-> code, error |-> IF ok THEN "" ELSE "LLMError"]

\* Mutant: code fences are not looked for.
_extract_dot_unfenced(llm_response) ==
  LET dot_code == Strip(llm_response)
  IN  Extracted(HasGraphToken(dot_code), dot_code)

_extract_dot(llm_response) ==
  LET dot_code == FencedOrWhole(llm_response, {"dot", "graphviz"})
  IN  Extracted(HasGraphToken(dot_code), dot_code)

_extract_mermaid(llm_response) ==
  LET mermaid_code == FencedOrWhole(llm_response, {"mermaid"})
  IN  Extracted(HasGanttToken(mermaid_code), mermaid_code)

\* Mutant: the markers are not added.
_extract_plantuml_unwrapped(llm_response) ==
  LET c0 == FencedOrWhole(llm_response, {"plantuml"})
  IN  Extracted(\E i \in 1..Len(c0) : LowerTok(c0[i]) \in {"@startwbs", "@startuml"},
                c0)

_extract_plantuml(llm_response) ==
  LET c0 == FencedOrWhole(llm_response, {"plantuml"})
      c1 == IF StartsWbs(c0) THEN c0 ELSE <<"@startwbs", "\n">> \o c0
      c2 == IF EndsWbs(c1) THEN c1 ELSE c1 \o <<"\n", "@endwbs">>
  IN  Extracted(\E i \in 1..Len(c2) : LowerTok(c2[i]) \in {"@startwbs", "@startuml"},
                c2)

Extract(kind, llm_response) ==
  CASE kind = "graphviz" -> _extract_dot(llm_response)
    [] kind = "mermaid_gantt" -> _extract_mermaid(llm_response)
    [] kind = "plantuml_wbs" -> _extract_plantuml(llm_response)

\* The words of which one occurring in prompt.lower() selects the digraph
\* template ("flowchart" stands for a word that has "flow" as a substring).
DirectedWords ==
  {"flow", "flowchart", "process", "step", "sequence", "hierarchy"}

_fallback_mock(prompt) ==
  LET is_directed == \E i \in 1..Len(prompt) : LowerTok(prompt[i]) \in DirectedWords
  IN  IF is_directed
        THEN <<"digraph", " ", "example", " ", "{", "\n",
               "start", " ", "->", " ", "end", ";", "\n", "}">>
        ELSE <<"graph", " ", "example", " ", "{", "\n",
               "A", " ", "--", " ", "B", ";", "\n", "}">>

\* " ".join(prompt.split()[:3]).title() or "Example Project"
project_name(prompt) ==
  LET words == Words(prompt)
      first == SubSeq(words, 1, IF Len(words) < 3 THEN Len(words) ELSE 3)
      j == JoinSp(first)
  IN  IF first = <<>> THEN <<"Example", " ", "Project">>
      ELSE [i \in 1..Len(j) |-> TitleTok(j[i])]

_fallback_mock_wbs(prompt) ==
  <<"@startwbs", "\n", "*", " ">> \o project_name(prompt)
    \o <<"\n", "**", " ", "Planning", "\n", "@endwbs">>

\* Mutant: the template has lost its "gantt" header line.
_fallback_mock_gantt_headless(prompt) ==
  <<"title", " ">> \o project_name(prompt)
    \o <<"\n", "dateFormat", " ", "YYYY-MM-DD", "\n", "section", " ", "Planning">>

_fallback_mock_gantt(prompt) ==
  <<"gantt", "\n", "title", " ">> \o project_name(prompt)
    \o <<"\n", "dateFormat", " ", "YYYY-MM-DD", "\n", "section", " ", "Planning">>

Fallback(kind, prompt) ==
  CASE kind = "graphviz" -> _fallback_mock(prompt)
    [] kind = "mermaid_gantt" -> _fallback_mock_gantt(prompt)
    [] kind = "plantuml_wbs" -> _fallback_mock_wbs(prompt)

----------------------------------------------------------------------------
\* Render adapters: the validation gates before the backend is invoked

\* str.startswith on the stripped DOT text
StartsWithGraph(d) ==
  \/ d # <<>> /\ Head(d) \in {"graph", "digraph"}
  \/ Len(d) >= 3 /\ d[1] = "strict" /\ d[2] = " " /\ d[3] \in {"graph", "digraph"}

\* Mutant: the length and brace-balance checks are left out.
validate_dot_syntax_lenient(dot) ==
  LET d == Strip(dot)
  IN  IF ~StartsWithGraph(d) THEN "DOT code must start with 'graph' or 'digraph'"
      ELSE IF Count(d, "{") = 0 \/ Count(d, "}") = 0
        THEN "DOT code must contain graph body in braces"
      ELSE "ok"

\* RenderService.validate_dot_syntax: "ok" or the ValidationError message
validate_dot_syntax(dot) ==
  LET d == Strip(dot)
  IN  IF CharLen(d) < 10 THEN "DOT code too short"
      ELSE IF ~StartsWithGraph(d) THEN "DOT code must start with 'graph' or 'digraph'"
      ELSE IF Count(d, "{") # Count(d, "}") THEN "Unbalanced braces in DOT code"
      ELSE IF Count(d, "{") = 0 \/ Count(d, "}") = 0
        THEN "DOT code must contain graph body in braces"
      ELSE "ok"

validate_mermaid_gantt_syntax(mermaid_code) ==
  LET c == Strip(mermaid_code)
  IN  IF CharLen(c) < 10 THEN "Mermaid code too short"
      ELSE IF ~(\E i \in 1..Len(c) : LowerTok(c[i]) = "gantt")
        THEN "Mermaid code must contain 'gantt' declaration"
      ELSE "ok"

validate_plantuml_syntax(code) ==
  LET c == Strip(code)
  IN  IF CharLen(c) < 10 THEN "PlantUML code too short"
      ELSE IF ~StartsWbs(c) THEN "PlantUML code must start with '@startwbs' or '@startuml'"
      ELSE IF ~EndsWbs(c) THEN "PlantUML code must end with '@endwbs' or '@enduml'"
      ELSE "ok"

valid_engines == {"dot", "neato", "fdp", "sfdp", "twopi", "circo"}

\* The checks a render adapter makes before it calls its backend.
RenderGate(kind, code, fmt, engine) ==
  IF fmt \notin {"svg", "png"} THEN "Invalid format"
  ELSE IF kind = "graphviz" /\ engine \notin valid_engines THEN "Invalid engine"
  ELSE CASE kind = "graphviz" -> validate_dot_syntax(code)
         [] kind = "mermaid_gantt" -> validate_mermaid_gantt_syntax(code)
         [] kind = "plantuml_wbs" -> validate_plantuml_syntax(code)

\* The image the backend produces for a source text and format.
Image(code, fmt) == <<"img", fmt, code>>

\* RenderService.render_to_bytes: the raised exception (error, message) or
\* the bytes, and whether the layout engine was run (src.pipe).
render_to_bytes(dot, fmt, engine, backend_ok) ==
  LET gate == RenderGate("graphviz", dot, fmt, engine)
  IN  IF gate # "ok"
        THEN [error |-> "ValidationError", message |-> gate,
              engine_invoked |-> FALSE, bytes |-> <<>>]
      ELSE IF ~backend_ok
        THEN [error |-> "RenderError", message |-> "Failed to render DOT code",
              engine_invoked |-> TRUE, bytes |-> <<>>]
      ELSE [error |-> "", message |-> "", engine_invoked |-> TRUE,
            bytes |-> Image(dot, fmt)]

\* base64.b64encode / base64.b64decode
b64encode(bytes) == <<"b64", bytes>>
b64decode(data) == data[2]

----------------------------------------------------------------------------
\* Bounds and input sets

\* Number of request handlers that can be in flight at once.
NReq == 2
\* Number of requests a behaviour serves.
MaxRequests == 2

Reqs == 1..NReq

Kinds == {"graphviz", "mermaid_gantt", "plantuml_wbs"}
Prompts == {<<"Draw", " ", "flow">>, <<"net">>}
Formats == {"svg", "png"}
Layouts == {"dot"}

\* The completion texts a provider returns for a kind (<<>> is empty content).
Contents(kind) ==
  {<<>>} \cup
  CASE kind = "graphviz" ->
         { <<Fence, "dot", "\n", "digraph", " ", "g", " ", "{", "a", "->", "b", ";", "}", "\n", Fence>>,
           <<"Here", " ", "digraph", " ", "g", " ", "{", "}">>,
           <<"Sorry">> }
    [] kind = "mermaid_gantt" ->
         { <<"gantt", "\n", "title", " ", "Plan">>, <<"Sorry">> }
    [] kind = "plantuml_wbs" ->
         { <<"*", " ", "Root", "\n", "**", " ", "Child">> }
    [] OTHER -> {}

\* What one provider call can come back with: a raised exception (ok = FALSE)
\* or a completion.
ProviderOutcomes(kind) ==
  {[ok |-> FALSE, content |-> <<>>]} \cup
  {[ok |-> TRUE, content |-> c] : c \in Contents(kind)}

\* response_metadata['token_usage']['total_tokens'], when the provider sends it
TokenCounts == {42}

\* Longest text of which every token sequence is tried on the extractors.
MaxTextLen == 5

\* Every text of at most n tokens over an alphabet
Texts(alphabet, n) == UNION {[1..k -> alphabet] : k \in 0..n}

\* hash_prompt(prompt, format, layout): the arguments tried
HashPrompts ==
  { <<"Draw", " ", "flow">>, <<"draw", " ", "flow">>,
    <<" ", "draw", " ", "flow", "\n">>, <<"draw", "flow">>,
    <<"net">>, <<"Net", " ">> }
HashInputs ==
  {[prompt |-> p, format |-> f, layout |-> l] :
     p \in HashPrompts, f \in {"svg", "SVG", "png"}, l \in {"dot", "Dot"}}

\* _extract_dot(llm_response): the responses tried
DotResponses ==
  Texts({Fence, "dot", "\n", " ", "graph", "x"}, MaxTextLen) \cup
  { <<"Here", " ", "Digraph", " ", "g">>,
    <<"x", "\n", Fence, "graphviz", " ", "\n", "\n", "digraph", " ", "a", "\n", Fence, "\n",
      Fence, "\n", "graph", " ", "b", "\n", Fence>>,
    <<Fence, "python", "\n", "x", "\n", Fence, "\n", "graph", "\n", Fence>>,
    <<Fence, "\n", "\n", Fence, "graph", "\n", Fence>>,
    <<Fence, "\n", "\n", Fence, "\n", "x", "\n", Fence>> }

\* _extract_plantuml(llm_response): the responses tried
WbsResponses ==
  Texts({Fence, "\n", " ", "@startwbs", "@enduml", "x"}, MaxTextLen) \cup
  { <<Fence, "plantuml", "\n", "@startuml", "\n", "*", " ", "Root", "\n", "@endwbs", "\n", Fence>>,
    <<"Here", "\n", Fence, "plantuml", "\n", "*", " ", "Root", "\n", Fence>>,
    <<"@STARTWBS", "\n", "*", " ", "Root">> }

\* render_to_bytes(dot, fmt, engine): the arguments tried
DotTexts ==
  { <<"graph">>,
    <<" ", "graph", " ", "g", "\n">>,
    <<"invalid", " ", "dot", " ", "code">>,
    <<"x", " ", "digraph", " ", "g", " ", "{", "}">>,
    <<"digraph", " ", "g", " ", "{", "{", "a", "}">>,
    <<"digraph", " ", "g", " ", "{", "a", "}", "}">>,
    <<"digraph", " ", "example", " ", "a", "->", "b">>,
    <<"strict", " ", "graph", " ", "g", " ", "{", "a", "--", "b", "}">>,
    <<"\n", "digraph", " ", "g", " ", "{", "a", "->", "b", ";", "}", " ">> }
RenderFormats == {"svg", "png", "pdf"}
RenderEngines == {"dot", "neato", "fdp", "sfdp", "twopi", "circo", "osage"}

\* Mutant: one attempt too many.
max_retries_plus_one == 3 + 1

\* generate_*_code(max_retries=3)
max_retries == 3

----------------------------------------------------------------------------
\* State

VARIABLES
  use_llm,       \* LLMService._use_llm: credentials of the selected provider present
  ENABLE_CACHE,  \* settings.ENABLE_CACHE
  diagrams,      \* table "diagrams", in insertion order
  logs,          \* table "generation_logs", in insertion order
  next_id,       \* next fresh artifact id (uuid4)
  served,        \* number of requests started so far
  finished,      \* serial numbers of the requests that have ended
  rq,            \* the request handlers in flight
  fn             \* the function application under test, for the pure functions

vars == <<use_llm, ENABLE_CACHE, diagrams, logs, next_id, served, finished, rq, fn>>

NoImage == <<>>
NoDiagram == [id |-> None]

\* No function is under test while requests are served.
NoCall == [phase |-> "none"]

Idle ==
  [pc |-> "idle", op |-> "", no |-> 0, after |-> {}, kind |-> "", prompt |-> <<>>,
   format |-> "", layout |-> "", save_to_db |-> FALSE, cached |-> NoDiagram,
   attempt |-> 0, calls |-> 0, sleeps |-> <<>>, code |-> <<>>,
   tokens_used |-> None, llm_latency_ms |-> None, renders |-> 0,
   engine_calls |-> 0, image_bytes |-> <<>>, diagram_id |-> None,
   inserted |-> 0, db |-> "ok", status |-> "", error |-> "", result |-> <<>>,
   http_status |-> None, cache_lookups |-> 0, store_lookups |-> 0,
   \* history of the request, kept for the properties
   outcomes |-> <<>>, last_content |-> <<>>, llm_result |-> "",
   render_result |-> "", insert_result |-> ""]

\* scripts/seed_data.py: a sample diagram stored without image_data
Seeded ==
  [id |-> 1, req |-> 0, prompt |-> <<"draw", " ", "flow">>,
   prompt_hash |-> hash_prompt(<<"draw", " ", "flow">>, "svg", "dot"),
   dot_code |-> <<"digraph", " ", "login", " ", "{", "start", "->", "input", ";", "}">>,
   format |-> "svg", layout |-> "dot", image_data |-> NoImage,
   token_count |-> 150, generation_time_ms |-> 500]

Init ==
  /\ use_llm \in BOOLEAN
  /\ ENABLE_CACHE \in BOOLEAN
  /\ diagrams = <<Seeded>>
  /\ logs = <<>>
  /\ next_id = 2
  /\ served = 0
  /\ finished = {}
  /\ rq = [r \in Reqs |-> Idle]
  /\ fn = NoCall

RECURSIVE Sum(_)
Sum(s) == IF s = <<>> THEN 0 ELSE Head(s) + Sum(Tail(s))

\* Mutant: the row is added to the session and left for the session's own
\* commit.
LogRow_uncommitted(q, success, tokens, latency, error_type, was_cached, diagram_id) ==
  [req |-> q.no, prompt |-> q.prompt,
   prompt_hash |-> hash_prompt(q.prompt, q.format, q.layout),
   success |-> success, tokens_used |-> tokens, latency_ms |-> latency,
   error_type |-> error_type, was_cached |-> was_cached,
   diagram_id |-> diagram_id, committed |-> FALSE]

\* GenerationLogRepository.create: the row appended to generation_logs by
\* add, commit, refresh; committed tells whether the row's transaction has
\* been committed.
LogRow(q, success, tokens, latency, error_type, was_cached, diagram_id) ==
  [req |-> q.no, prompt |-> q.prompt,
   prompt_hash |-> hash_prompt(q.prompt, q.format, q.layout),
   success |-> success, tokens_used |-> tokens, latency_ms |-> latency,
   error_type |-> error_type, was_cached |-> was_cached,
   diagram_id |-> diagram_id, committed |-> TRUE]

\* Mutant: the format and layout arguments compared with the wrong columns.
find_by_prompt_hash_swapped(prompt_hash, format, layout) ==
  LET is == {i \in 1..Len(diagrams) :
               /\ diagrams[i].prompt_hash = prompt_hash
               /\ diagrams[i].format = layout
               /\ diagrams[i].layout = format}
  IN  IF is = {} THEN NoDiagram ELSE diagrams[Max(is)]

\* Mutant: the newest row of that format and layout, whatever its hash.
find_by_prompt_hash_any(prompt_hash, format, layout) ==
  LET is == {i \in 1..Len(diagrams) :
               /\ diagrams[i].format = format
               /\ diagrams[i].layout = layout}
  IN  IF is = {} THEN NoDiagram ELSE diagrams[Max(is)]

\* DiagramRepository.find_by_prompt_hash: newest row with that hash, format, layout
find_by_prompt_hash(prompt_hash, format, layout) ==
  LET is == {i \in 1..Len(diagrams) :
               /\ diagrams[i].prompt_hash = prompt_hash
               /\ diagrams[i].format = format
               /\ diagrams[i].layout = layout}
  IN  IF is = {} THEN NoDiagram ELSE diagrams[Max(is)]

\* Mutant: the ENABLE_CACHE test inverted.
get_cached_diagram_inverted(prompt, format, layout) ==
  IF ENABLE_CACHE THEN NoDiagram
  ELSE find_by_prompt_hash(hash_prompt(prompt, format, layout), format, layout)

\* CacheService.get_cached_diagram
get_cached_diagram(prompt, format, layout) ==
  IF ~ENABLE_CACHE THEN NoDiagram
  ELSE find_by_prompt_hash(hash_prompt(prompt, format, layout), format, layout)

----------------------------------------------------------------------------
\* Actions.  One action per step of a handler between two suspension points.

\* Mutant: a failed request is answered with status 400.
controller_status_400(status, error) ==
  IF status = "returned" THEN 200
  ELSE IF error = "NotFound" THEN 404
  ELSE 400

\* The endpoint around a service call: the response on return, HTTPException
\* (404) re-raised, every other exception turned into HTTPException(500).
controller_status(status, error) ==
  IF status = "returned" THEN 200
  ELSE IF error = "NotFound" THEN 404
  ELSE 500

\* The service call ends, returning result or raising error, and the endpoint
\* answers.
Terminal(q, status, error, result) ==
  [q EXCEPT !.pc = "done", !.status = status, !.error = error, !.result = result,
            !.http_status = controller_status(status, error)]

Store == <<diagrams, logs, next_id>>
Config == <<use_llm, ENABLE_CACHE>>

\* Mutant: generate_diagram starts with the LLM stage, without the cache
\* lookup.
Begin_llm_first(r, kind, prompt, format, layout, save_to_db) ==
  /\ rq[r].pc = "idle"
  /\ served < MaxRequests
  /\ served' = served + 1
  /\ rq' = [rq EXCEPT ![r] =
              [Idle EXCEPT !.pc = "llm",
                           !.op = "generate",
                           !.no = served + 1, !.after = finished,
                           !.kind = kind, !.prompt = prompt, !.format = format,
                           !.layout = layout, !.save_to_db = save_to_db]]
  /\ UNCHANGED <<Config, fn, Store, finished>>

\* A handler is entered: DiagramService.generate_diagram (graphviz),
\* GanttService.generate_gantt or WBSService.generate_wbs.
Begin(r, kind, prompt, format, layout, save_to_db) ==
  /\ rq[r].pc = "idle"
  /\ served < MaxRequests
  /\ served' = served + 1
  /\ rq' = [rq EXCEPT ![r] =
              [Idle EXCEPT !.pc = IF kind = "graphviz" THEN "cache_check" ELSE "llm",
                           !.op = "generate",
                           !.no = served + 1, !.after = finished,
                           !.kind = kind, !.prompt = prompt, !.format = format,
                           !.layout = layout, !.save_to_db = save_to_db]]
  /\ UNCHANGED <<Config, fn, Store, finished>>

\* Requests arrive while others are in flight.
Start(r) ==
  \E kind \in Kinds, prompt \in Prompts, format \in Formats, layout \in Layouts :
    \* the controller passes save_to_db=True; Gantt and WBS have no store
    Begin(r, kind, prompt, format, layout, kind = "graphviz")

\* Requests arrive one after the other; the handlers being interchangeable,
\* the first one takes each request.
StartSeq(r) ==
  /\ \A o \in Reqs : rq[o].pc = "idle"
  /\ r = Min(Reqs)
  /\ Start(r)

\* generate_diagram, step 1: cache lookup
CacheCheck(r) ==
  LET q == rq[r]
      cached_diagram == get_cached_diagram(q.prompt, q.format, q.layout)
  IN  /\ q.pc = "cache_check"
      /\ rq' = [rq EXCEPT ![r].cached = cached_diagram,
                          ![r].cache_lookups = @ + 1,
                          \* find_by_prompt_hash is reached only past the ENABLE_CACHE test
                          ![r].store_lookups = IF ENABLE_CACHE THEN @ + 1 ELSE @,
                          ![r].pc = IF cached_diagram # NoDiagram THEN "log_hit" ELSE "llm"]
      /\ UNCHANGED <<Config, fn, Store, served, finished>>

\* generate_diagram, cache hit: the log entry is written first
LogCacheHit(r) ==
  LET q == rq[r]
  IN  /\ q.pc = "log_hit"
      /\ logs' = Append(logs, LogRow(q, TRUE, None, None, "", TRUE, q.cached.id))
      /\ rq' = [rq EXCEPT ![r].pc = "hit_image"]
      /\ UNCHANGED <<Config, fn, diagrams, next_id, served, finished>>

\* Mutant: the stored image is ignored and the diagram rendered again.
ReturnCached_rerender(r) ==
  LET q == rq[r]
      image_bytes == Image(q.cached.dot_code, q.format)
  IN  /\ q.pc = "hit_image"
      /\ q.cached.image_data # NoImage
      /\ rq' = [rq EXCEPT ![r] =
                  Terminal([q EXCEPT !.image_bytes = image_bytes, !.renders = @ + 1,
                                     !.engine_calls = @ + 1, !.render_result = "ok"],
                           "returned", "",
                           <<image_bytes, q.cached.dot_code, q.cached.id>>)]
      /\ UNCHANGED <<Config, fn, Store, served, finished>>

\* generate_diagram, cache hit with a stored image: decode and return
ReturnCached(r) ==
  LET q == rq[r]
      image_bytes == b64decode(q.cached.image_data)
  IN  /\ q.pc = "hit_image"
      /\ q.cached.image_data # NoImage
      /\ rq' = [rq EXCEPT ![r] =
                  Terminal([q EXCEPT !.image_bytes = image_bytes], "returned", "",
                           <<image_bytes, q.cached.dot_code, q.cached.id>>)]
      /\ UNCHANGED <<Config, fn, Store, served, finished>>

\* generate_diagram, cache hit without a stored image: re-render, outside
\* any try block
RerenderCached(r, backend_ok) ==
  LET q == rq[r]
      gate == RenderGate("graphviz", q.cached.dot_code, q.format, q.layout)
      image_bytes == Image(q.cached.dot_code, q.format)
      q1 == [q EXCEPT !.renders = @ + 1,
                      !.engine_calls = IF gate = "ok" THEN @ + 1 ELSE @,
                      !.render_result = IF gate # "ok" THEN "ValidationError"
                                        ELSE IF ~backend_ok THEN "RenderError" ELSE "ok"]
  IN  /\ q.pc = "hit_image"
      /\ q.cached.image_data = NoImage
      /\ rq' = [rq EXCEPT ![r] =
                  IF gate # "ok" THEN Terminal(q1, "raised", "ValidationError", <<>>)
                  ELSE IF ~backend_ok THEN Terminal(q1, "raised", "RenderError", <<>>)
                  ELSE Terminal([q1 EXCEPT !.image_bytes = image_bytes], "returned", "",
                                <<image_bytes, q.cached.dot_code, q.cached.id>>)]
      /\ UNCHANGED <<Config, fn, Store, served, finished>>

\* generate_*_code without credentials: the offline template
GenerateFallback(r) ==
  LET q == rq[r]
  IN  /\ q.pc = "llm"
      /\ ~use_llm
      /\ rq' = [rq EXCEPT ![r].code = Fallback(q.kind, q.prompt),
                          ![r].tokens_used = None,
                          ![r].llm_latency_ms = 0,
                          ![r].llm_result = "ok",
                          ![r].pc = "render"]
      /\ UNCHANGED <<Config, fn, Store, served, finished>>

\* Mutant: the retry loop never gives up.
AfterFailure_forever(q) ==
  [q EXCEPT !.pc = "backoff"]

\* The except branch of the retry loop: back off if attempts remain, else
\* raise LLMError.
AfterFailure(q) ==
  IF q.attempt < max_retries - 1 THEN [q EXCEPT !.pc = "backoff"]
  ELSE [q EXCEPT !.pc = "llm_failed", !.llm_result = "LLMError"]

\* The try body of the retry loop: provider call, then extraction.
AfterCall(q, out, tokens) ==
  LET ext == Extract(q.kind, Strip(out.content))
      q1(o) == [q EXCEPT !.outcomes = Append(@, o),
                         !.last_content = IF o = "ok" THEN out.content ELSE @]
  IN  IF ~out.ok \/ Strip(out.content) = <<>> THEN AfterFailure(q1("error"))
      ELSE IF ~ext.ok THEN AfterFailure(q1("unextractable"))
      ELSE [q1("ok") EXCEPT !.code = ext.code, !.tokens_used = tokens,
                            !.llm_latency_ms = 1000 * Sum(q.sleeps),
                            !.llm_result = "ok", !.pc = "render"]

\* generate_*_code, one iteration of the retry loop
CallLLM(r, out, tokens) ==
  LET q == rq[r]
  IN  /\ q.pc = "llm"
      /\ use_llm
      /\ rq' = [rq EXCEPT ![r] = AfterCall([q EXCEPT !.calls = @ + 1], out, tokens)]
      /\ UNCHANGED <<Config, fn, Store, served, finished>>

\* Mutant: linear instead of exponential backoff (2 * attempt).
Pow2_linear(n) == 2 * n

\* 2 ** n
RECURSIVE Pow2(_)
Pow2(n) == IF n = 0 THEN 1 ELSE 2 * Pow2(n - 1)

\* wait_time = 2 ** attempt; await asyncio.sleep(wait_time); next iteration
Backoff(r) ==
  LET q == rq[r]
  IN  /\ q.pc = "backoff"
      /\ rq' = [rq EXCEPT ![r].sleeps = Append(@, Pow2(q.attempt)),
                          ![r].attempt = @ + 1,
                          ![r].pc = "llm"]
      /\ UNCHANGED <<Config, fn, Store, served, finished>>

\* Mutant: the failure is propagated without the log entry.
LLMFailed_unlogged(r) ==
  LET q == rq[r]
  IN  /\ q.pc = "llm_failed"
      /\ rq' = [rq EXCEPT ![r] = Terminal(q, "raised", "DiagramGenerationError", <<>>)]
      /\ UNCHANGED <<Config, fn, Store, served, finished>>

\* The orchestrator's except branch around the LLM stage
LLMFailed(r) ==
  LET q == rq[r]
  IN  /\ q.pc = "llm_failed"
      /\ logs' = IF q.kind = "graphviz"
                   THEN Append(logs, LogRow(q, FALSE, None, None, "LLMError", FALSE, None))
                   ELSE logs
      /\ rq' = [rq EXCEPT ![r] = Terminal(q, "raised", "DiagramGenerationError", <<>>)]
      /\ UNCHANGED <<Config, fn, diagrams, next_id, served, finished>>

\* The render stage of a generate request
Render(r, backend_ok) ==
  LET q == rq[r]
      gate == RenderGate(q.kind, q.code, q.format, q.layout)
      image_bytes == Image(q.code, q.format)
      q1 == [q EXCEPT !.renders = @ + 1,
                      !.engine_calls = IF gate = "ok" THEN @ + 1 ELSE @,
                      !.render_result = IF gate # "ok" THEN "ValidationError"
                                        ELSE IF ~backend_ok THEN "RenderError" ELSE "ok"]
  IN  /\ q.pc = "render"
      /\ rq' = [rq EXCEPT ![r] =
                  IF gate # "ok" \/ ~backend_ok THEN [q1 EXCEPT !.pc = "render_failed"]
                  ELSE IF q.kind # "graphviz"
                    THEN Terminal([q1 EXCEPT !.image_bytes = image_bytes], "returned", "",
                                  <<image_bytes, q.code>>)
                  ELSE [q1 EXCEPT !.image_bytes = image_bytes,
                                  !.pc = IF q.save_to_db THEN "persist" ELSE "log_success"]]
      /\ UNCHANGED <<Config, fn, Store, served, finished>>

\* Mutant: the failure entry leaves out the tokens and latency already spent.
RenderFailed_no_usage(r) ==
  LET q == rq[r]
  IN  /\ q.pc = "render_failed"
      /\ logs' = IF q.kind = "graphviz"
                   THEN Append(logs, LogRow(q, FALSE, None, None, "RenderError", FALSE, None))
                   ELSE logs
      /\ rq' = [rq EXCEPT ![r] = Terminal(q, "raised", "DiagramGenerationError", <<>>)]
      /\ UNCHANGED <<Config, fn, diagrams, next_id, served, finished>>

\* Mutant: a failed render is tried once more before the request fails.
RenderFailed_retry(r) ==
  LET q == rq[r]
  IN  /\ q.pc = "render_failed"
      /\ logs' = IF q.kind = "graphviz" /\ q.renders > 1
                   THEN Append(logs, LogRow(q, FALSE, q.tokens_used, q.llm_latency_ms,
                                            "RenderError", FALSE, None))
                   ELSE logs
      /\ rq' = [rq EXCEPT ![r] =
                  IF q.renders > 1
                    THEN Terminal(q, "raised", "DiagramGenerationError", <<>>)
                    ELSE [q EXCEPT !.pc = "render"]]
      /\ UNCHANGED <<Config, fn, diagrams, next_id, served, finished>>

\* The orchestrator's except branch around the render stage
RenderFailed(r) ==
  LET q == rq[r]
  IN  /\ q.pc = "render_failed"
      /\ logs' = IF q.kind = "graphviz"
                   THEN Append(logs, LogRow(q, FALSE, q.tokens_used, q.llm_latency_ms,
                                            "RenderError", FALSE, None))
                   ELSE logs
      /\ rq' = [rq EXCEPT ![r] = Terminal(q, "raised", "DiagramGenerationError", <<>>)]
      /\ UNCHANGED <<Config, fn, diagrams, next_id, served, finished>>

\* What DiagramRepository.create can do: insert the row ("ok"), raise before
\* the session flushes ("rejected"), or raise from the flush inside commit
\* ("flush_error"), which leaves the session needing a rollback.
InsertOutcomes == {"ok", "rejected", "flush_error"}

\* Mutant: an artifact with the same fingerprint is reused instead of a
\* second one being inserted.
Persist_upsert(r, outcome) ==
  LET q == rq[r]
      same == find_by_prompt_hash(hash_prompt(q.prompt, q.format, q.layout),
                                  q.format, q.layout)
      row == [id |-> next_id, req |-> q.no, prompt |-> q.prompt,
              prompt_hash |-> hash_prompt(q.prompt, q.format, q.layout),
              dot_code |-> q.code, format |-> q.format, layout |-> q.layout,
              image_data |-> b64encode(q.image_bytes),
              token_count |-> q.tokens_used,
              generation_time_ms |-> q.llm_latency_ms]
  IN  /\ q.pc = "persist"
      /\ diagrams' = IF same = NoDiagram THEN Append(diagrams, row) ELSE diagrams
      /\ next_id' = IF same = NoDiagram THEN next_id + 1 ELSE next_id
      /\ rq' = [rq EXCEPT ![r].diagram_id = IF same = NoDiagram THEN next_id ELSE same.id,
                          ![r].inserted = @ + 1,
                          ![r].insert_result = "ok",
                          ![r].pc = "log_success"]
      /\ UNCHANGED <<Config, fn, logs, served, finished>>

\* Mutant: the artifact is stored without its image.
Persist_no_image(r, outcome) ==
  LET q == rq[r]
      row == [id |-> next_id, req |-> q.no, prompt |-> q.prompt,
              prompt_hash |-> hash_prompt(q.prompt, q.format, q.layout),
              dot_code |-> q.code, format |-> q.format, layout |-> q.layout,
              image_data |-> NoImage,
              token_count |-> q.tokens_used,
              generation_time_ms |-> q.llm_latency_ms]
  IN  /\ q.pc = "persist"
      /\ diagrams' = Append(diagrams, row)
      /\ next_id' = next_id + 1
      /\ rq' = [rq EXCEPT ![r].diagram_id = next_id,
                          ![r].inserted = @ + 1,
                          ![r].insert_result = "ok",
                          ![r].pc = "log_success"]
      /\ UNCHANGED <<Config, fn, logs, served, finished>>

\* generate_diagram, step 4: save to database, exceptions swallowed
Persist(r, outcome) ==
  LET q == rq[r]
      row == [id |-> next_id, req |-> q.no, prompt |-> q.prompt,
              prompt_hash |-> hash_prompt(q.prompt, q.format, q.layout),
              dot_code |-> q.code, format |-> q.format, layout |-> q.layout,
              image_data |-> b64encode(q.image_bytes),
              token_count |-> q.tokens_used,
              generation_time_ms |-> q.llm_latency_ms]
  IN  /\ q.pc = "persist"
      /\ IF outcome = "ok"
           THEN /\ diagrams' = Append(diagrams, row)
                /\ next_id' = next_id + 1
                /\ rq' = [rq EXCEPT ![r].diagram_id = next_id,
                                    ![r].inserted = @ + 1,
                                    ![r].insert_result = outcome,
                                    ![r].pc = "log_success"]
           ELSE /\ UNCHANGED <<diagrams, next_id>>
                /\ rq' = [rq EXCEPT ![r].db = IF outcome = "flush_error" THEN "failed" ELSE @,
                                    ![r].insert_result = outcome,
                                    ![r].pc = "log_success"]
      /\ UNCHANGED <<Config, fn, logs, served, finished>>

\* Mutant: the success entry is written without the artifact's id.
LogSuccess_unlinked(r) ==
  LET q == rq[r]
  IN  /\ q.pc = "log_success"
      /\ IF q.db = "ok"
           THEN /\ logs' = Append(logs, LogRow(q, TRUE, q.tokens_used, q.llm_latency_ms,
                                               "", FALSE, None))
                /\ rq' = [rq EXCEPT ![r] =
                            Terminal(q, "returned", "",
                                     <<q.image_bytes, q.code, q.diagram_id>>)]
           ELSE /\ UNCHANGED logs
                /\ rq' = [rq EXCEPT ![r] = Terminal(q, "raised", "PendingRollbackError", <<>>)]
      /\ UNCHANGED <<Config, fn, diagrams, next_id, served, finished>>

\* generate_diagram, step 5: log the success on the same session, then return
LogSuccess(r) ==
  LET q == rq[r]
  IN  /\ q.pc = "log_success"
      /\ IF q.db = "ok"
           THEN /\ logs' = Append(logs, LogRow(q, TRUE, q.tokens_used, q.llm_latency_ms,
                                               "", FALSE, q.diagram_id))
                /\ rq' = [rq EXCEPT ![r] =
                            Terminal(q, "returned", "",
                                     <<q.image_bytes, q.code, q.diagram_id>>)]
           ELSE /\ UNCHANGED logs
                /\ rq' = [rq EXCEPT ![r] = Terminal(q, "raised", "PendingRollbackError", <<>>)]
      /\ UNCHANGED <<Config, fn, diagrams, next_id, served, finished>>

\* A preview request arrives: preview_diagram, preview_gantt or preview_wbs
\* with the code to render.
BeginPreview(r, kind, code, format, layout) ==
  /\ \A o \in Reqs : rq[o].pc = "idle"
  /\ r = Min(Reqs)
  /\ served < MaxRequests
  /\ served' = served + 1
  /\ rq' = [rq EXCEPT ![r] =
              [Idle EXCEPT !.pc = "preview", !.op = "preview",
                           !.no = served + 1, !.after = finished,
                           !.kind = kind, !.code = code, !.format = format,
                           !.layout = layout]]
  /\ UNCHANGED <<Config, fn, Store, finished>>

\* The codes a client sends to a preview endpoint.
PreviewCodes(kind) ==
  CASE kind = "graphviz" ->
         { <<"graph">>,
           <<"invalid", " ", "dot", " ", "code">>,
           <<"digraph", " ", "g", " ", "{", "{", "a", "}">>,
           <<"digraph", " ", "g", " ", "{", "a", "->", "b", ";", "}">> }
    [] kind = "mermaid_gantt" ->
         { <<"title">>, <<"gantt", "\n", "title", " ", "Plan">> }
    [] kind = "plantuml_wbs" ->
         { <<"*", " ", "Root", "\n", "**", " ", "Child">>,
           <<"@startwbs", "\n", "*", " ", "Root", "\n", "@endwbs">> }

StartPreview(r) ==
  \E kind \in Kinds, format \in Formats, layout \in Layouts :
    \E code \in PreviewCodes(kind) :
      BeginPreview(r, kind, code, format, layout)

\* Mutant: the preview writes a generation log entry.
Preview_logged(r, backend_ok) ==
  LET q == rq[r]
  IN  /\ q.pc = "preview"
      /\ logs' = Append(logs, LogRow(q, backend_ok, None, None, "", FALSE, None))
      /\ rq' = [rq EXCEPT ![r] =
                  Terminal([q EXCEPT !.renders = @ + 1], "returned", "",
                           <<Image(q.code, q.format)>>)]
      /\ UNCHANGED <<Config, fn, diagrams, next_id, served, finished>>

\* preview_diagram / preview_gantt / preview_wbs: render the given code; any
\* exception of the adapter is re-raised as DiagramGenerationError
Preview(r, backend_ok) ==
  LET q == rq[r]
      gate == RenderGate(q.kind, q.code, q.format, q.layout)
      image_bytes == Image(q.code, q.format)
      q1 == [q EXCEPT !.renders = @ + 1,
                      !.engine_calls = IF gate = "ok" THEN @ + 1 ELSE @,
                      !.render_result = IF gate # "ok" THEN "ValidationError"
                                        ELSE IF ~backend_ok THEN "RenderError" ELSE "ok"]
  IN  /\ q.pc = "preview"
      /\ rq' = [rq EXCEPT ![r] =
                  IF gate # "ok" \/ ~backend_ok
                    THEN Terminal(q1, "raised", "DiagramGenerationError", <<>>)
                  ELSE Terminal([q1 EXCEPT !.image_bytes = image_bytes], "returned", "",
                                <<image_bytes>>)]
      /\ UNCHANGED <<Config, fn, Store, served, finished>>

\* A store request arrives and is served in one step.
Serve(r, op, status, error, result) ==
  /\ \A o \in Reqs : rq[o].pc = "idle"
  /\ r = Min(Reqs)
  /\ served < MaxRequests
  /\ served' = served + 1
  /\ rq' = [rq EXCEPT ![r] =
              Terminal([Idle EXCEPT !.op = op, !.no = served + 1, !.after = finished],
                       status, error, result)]

\* The ids a client asks for: the stored ones and one that is not stored.
DiagramIds == 1..next_id

Reverse(s) == [i \in 1..Len(s) |-> s[Len(s) + 1 - i]]

\* GET /history: DiagramRepository.list_all (newest first, offset, limit) and
\* count
get_diagram_history(r, limit, offset) ==
  LET newest == Reverse(diagrams)
      items == SubSeq(newest, offset + 1, Min({Len(newest), offset + limit}))
  IN  /\ Serve(r, "history", "returned", "", <<items, Len(diagrams)>>)
      /\ UNCHANGED <<Config, fn, Store, finished>>

\* GET /{diagram_id}: DiagramRepository.get_by_id, 404 when there is none
get_diagram(r, diagram_id) ==
  LET found == {i \in 1..Len(diagrams) : diagrams[i].id = diagram_id}
  IN  /\ IF found = {}
           THEN Serve(r, "get", "raised", "NotFound", <<>>)
           ELSE Serve(r, "get", "returned", "", <<diagrams[Min(found)]>>)
      /\ UNCHANGED <<Config, fn, Store, finished>>

\* Mutant: the log entries of the deleted diagram are deleted with it.
delete_diagram_cascade(r, diagram_id, fk_enforced) ==
  LET found == {i \in 1..Len(diagrams) : diagrams[i].id = diagram_id}
  IN  /\ IF found = {}
           THEN /\ Serve(r, "delete", "raised", "NotFound", <<>>)
                /\ UNCHANGED <<diagrams, logs>>
           ELSE /\ Serve(r, "delete", "returned", "", <<diagram_id>>)
                /\ diagrams' = SelectSeq(diagrams, LAMBDA d : d.id # diagram_id)
                /\ logs' = SelectSeq(logs, LAMBDA l : l.diagram_id # diagram_id)
      /\ UNCHANGED <<Config, fn, next_id, finished>>

\* DELETE /{diagram_id}: DiagramRepository.delete.  generation_logs.diagram_id
\* is a foreign key to diagrams.id without ON DELETE: a database that
\* enforces it refuses to delete a diagram that a log entry refers to
\* (IntegrityError at commit), one that does not enforce it deletes the row.
delete_diagram(r, diagram_id, fk_enforced) ==
  LET found == {i \in 1..Len(diagrams) : diagrams[i].id = diagram_id}
      referenced == \E i \in 1..Len(logs) : logs[i].diagram_id = diagram_id
  IN  /\ IF found = {}
           THEN /\ Serve(r, "delete", "raised", "NotFound", <<>>)
                /\ UNCHANGED diagrams
           ELSE IF referenced /\ fk_enforced
           THEN /\ Serve(r, "delete", "raised", "IntegrityError", <<>>)
                /\ UNCHANGED diagrams
           ELSE /\ Serve(r, "delete", "returned", "", <<diagram_id>>)
                /\ diagrams' = SelectSeq(diagrams, LAMBDA d : d.id # diagram_id)
      /\ UNCHANGED <<Config, fn, logs, next_id, finished>>

\* GenerationLogRepository.delete_old, run by scripts/cleanup_old_diagrams.py:
\* the entries older than the retention period are the k oldest ones.
delete_old(k) ==
  /\ \A o \in Reqs : rq[o].pc = "idle"
  /\ k \in 1..Len(logs)
  /\ logs' = SubSeq(logs, k + 1, Len(logs))
  /\ UNCHANGED <<Config, fn, diagrams, next_id, served, finished, rq>>

\* DiagramRepository.delete_old, run by scripts/cleanup_old_diagrams.py: the
\* diagrams older than the retention period are the k oldest ones, deleted
\* in one commit.  As in delete_diagram, a database that enforces the foreign
\* key of generation_logs refuses the commit when a log entry refers to one
\* of them.
cleanup_old_diagrams(k, fk_enforced) ==
  LET old == {diagrams[i].id : i \in 1..k}
      referenced == \E i \in 1..Len(logs) : logs[i].diagram_id \in old
  IN  /\ \A o \in Reqs : rq[o].pc = "idle"
      /\ k \in 1..Len(diagrams)
      /\ diagrams' = IF referenced /\ fk_enforced THEN diagrams
                     ELSE SubSeq(diagrams, k + 1, Len(diagrams))
      /\ UNCHANGED <<Config, fn, logs, next_id, served, finished, rq>>

\* The handler's result has been delivered and get_session ends the request's
\* session: it commits what the request left uncommitted when the endpoint
\* returned, and rolls it back when the endpoint raised.
Release(r) ==
  LET q == rq[r]
  IN  /\ q.pc = "done"
      /\ logs' = IF q.status = "raised"
                   THEN SelectSeq(logs, LAMBDA l : l.req # q.no \/ l.committed)
                   ELSE [i \in 1..Len(logs) |->
                           IF logs[i].req = q.no
                             THEN [logs[i] EXCEPT !.committed = TRUE]
                             ELSE logs[i]]
      /\ finished' = finished \cup {q.no}
      /\ rq' = [rq EXCEPT ![r] = Idle]
      /\ UNCHANGED <<Config, fn, diagrams, next_id, served>>

Step(r) ==
  \/ CacheCheck(r)
  \/ LogCacheHit(r)
  \/ ReturnCached(r)
  \/ \E backend_ok \in BOOLEAN : RerenderCached(r, backend_ok)
  \/ GenerateFallback(r)
  \/ \E out \in ProviderOutcomes(rq[r].kind), tokens \in TokenCounts : CallLLM(r, out, tokens)
  \/ Backoff(r)
  \/ LLMFailed(r)
  \/ \E backend_ok \in BOOLEAN : Render(r, backend_ok)
  \/ RenderFailed(r)
  \/ \E outcome \in InsertOutcomes : Persist(r, outcome)
  \/ LogSuccess(r)
  \/ Release(r)

Next == \E r \in Reqs : Start(r) \/ Step(r)

NextSeq == \E r \in Reqs : StartSeq(r) \/ Step(r)

\* Requests handled concurrently.
Spec == Init /\ [][Next]_vars

\* Requests handled one after the other.
SpecSeq == Init /\ [][NextSeq]_vars

\* The service without provider credentials, with the preview and store
\* endpoints and the retention sweep, requests handled one after the other.
InitStore == Init /\ ~use_llm

NextStore ==
  \/ \E r \in Reqs :
        \/ StartSeq(r)
        \/ CacheCheck(r)
        \/ LogCacheHit(r)
        \/ ReturnCached(r)
        \/ \E backend_ok \in BOOLEAN : RerenderCached(r, backend_ok)
        \/ GenerateFallback(r)
        \/ \E backend_ok \in BOOLEAN : Render(r, backend_ok)
        \/ RenderFailed(r)
        \/ \E outcome \in InsertOutcomes : Persist(r, outcome)
        \/ LogSuccess(r)
        \/ StartPreview(r)
        \/ \E backend_ok \in BOOLEAN : Preview(r, backend_ok)
        \/ \E limit \in 1..2, offset \in 0..1 : get_diagram_history(r, limit, offset)
        \/ \E diagram_id \in DiagramIds : get_diagram(r, diagram_id)
        \/ \E diagram_id \in DiagramIds, fk_enforced \in BOOLEAN :
              delete_diagram(r, diagram_id, fk_enforced)
        \/ Release(r)
  \/ \E k \in 1..Len(logs) : delete_old(k)
  \/ \E k \in 1..Len(diagrams), fk_enforced \in BOOLEAN : cleanup_old_diagrams(k, fk_enforced)

SpecStore == InitStore /\ [][NextStore]_vars

\* Generate and preview requests of every kind in SVG, one after the other,
\* with and without provider credentials.
StartSvg(r) ==
  /\ \A o \in Reqs : rq[o].pc = "idle"
  /\ r = Min(Reqs)
  /\ \E kind \in Kinds, prompt \in Prompts :
       Begin(r, kind, prompt, "svg", "dot", kind = "graphviz")

NextRender ==
  \E r \in Reqs :
    \/ StartSvg(r)
    \/ Step(r)
    \/ StartPreview(r)
    \/ \E backend_ok \in BOOLEAN : Preview(r, backend_ok)

SpecRender == Init /\ [][NextRender]_vars

\* The same requests where every handler that can take a step eventually
\* takes one: the event loop resumes each task whose awaited call has
\* returned or failed, and every sleep ends.
SpecLive == Init /\ [][NextRender]_vars /\ \A r \in Reqs : WF_vars(Step(r))

\* DiagramService.generate_diagram as its signature admits it: format is any
\* string, here also in upper case, and save_to_db either way; requests one
\* after the other.
ServiceFormats == {"svg", "SVG"}

StartService(r) ==
  /\ \A o \in Reqs : rq[o].pc = "idle"
  /\ r = Min(Reqs)
  /\ \E prompt \in Prompts, format \in ServiceFormats, save_to_db \in BOOLEAN :
       Begin(r, "graphviz", prompt, format, "dot", save_to_db)

NextService == \E r \in Reqs : StartService(r) \/ Step(r)

SpecService == Init /\ [][NextService]_vars

\* The pure functions, each applied once to arguments drawn from the sets
\* above; no request is served.
Call(name, args) == [phase |-> "call", name |-> name, args |-> args, ret |-> <<>>]

InitPure ==
  /\ use_llm = FALSE
  /\ ENABLE_CACHE = FALSE
  /\ diagrams = <<Seeded>>
  /\ logs = <<>>
  /\ next_id = 2
  /\ served = 0
  /\ finished = {}
  /\ rq = [r \in Reqs |-> Idle]
  /\ \/ fn \in {Call("hash_prompt", <<a, b>>) : a, b \in HashInputs}
     \/ fn \in {Call("_extract_dot", t) : t \in DotResponses}
     \/ fn \in {Call("_extract_plantuml", t) : t \in WbsResponses}
     \/ fn \in {Call("render_to_bytes",
                      [dot |-> d, fmt |-> f, engine |-> e, backend_ok |-> b]) :
                   d \in DotTexts, f \in RenderFormats, e \in RenderEngines,
                   b \in BOOLEAN}

Return(name, ret) ==
  /\ fn.phase = "call"
  /\ fn.name = name
  /\ fn' = [fn EXCEPT !.phase = "ret", !.ret = ret]
  /\ UNCHANGED <<Config, Store, served, finished, rq>>

\* Two calls of hash_prompt
Call_hash_prompt ==
  /\ fn.name = "hash_prompt"
  /\ LET a == fn.args[1]
         b == fn.args[2]
     IN  Return("hash_prompt", <<hash_prompt(a.prompt, a.format, a.layout),
                                 hash_prompt(b.prompt, b.format, b.layout)>>)

Call_extract_dot ==
  /\ fn.name = "_extract_dot"
  /\ Return("_extract_dot", _extract_dot(fn.args))

Call_extract_plantuml ==
  /\ fn.name = "_extract_plantuml"
  /\ Return("_extract_plantuml", _extract_plantuml(fn.args))

Call_render_to_bytes ==
  /\ fn.name = "render_to_bytes"
  /\ Return("render_to_bytes",
            render_to_bytes(fn.args.dot, fn.args.fmt, fn.args.engine, fn.args.backend_ok))

NextPure ==
  \/ Call_hash_prompt
  \/ Call_extract_dot
  \/ Call_extract_plantuml
  \/ Call_render_to_bytes

SpecPure == InitPure /\ [][NextPure]_vars

\* Concurrent generate_diagram requests against a provider that answers
\* every call with a fenced DOT block.
InitRace == Init /\ use_llm

RaceOutcomes ==
  {[ok |-> TRUE,
    content |-> <<Fence, "dot", "\n", "digraph", " ", "g", " ", "{", "a", "->", "b", ";", "}", "\n", Fence>>]}

StartRace(r) ==
  \E prompt \in Prompts, layout \in Layouts :
    Begin(r, "graphviz", prompt, "svg", layout, TRUE)

NextRace ==
  \E r \in Reqs :
    \/ StartRace(r)
    \/ CacheCheck(r)
    \/ LogCacheHit(r)
    \/ ReturnCached(r)
    \/ \E backend_ok \in BOOLEAN : RerenderCached(r, backend_ok)
    \/ \E out \in RaceOutcomes, tokens \in TokenCounts : CallLLM(r, out, tokens)
    \/ \E backend_ok \in BOOLEAN : Render(r, backend_ok)
    \/ RenderFailed(r)
    \/ \E outcome \in InsertOutcomes : Persist(r, outcome)
    \/ LogSuccess(r)
    \/ Release(r)

SpecRace == InitRace /\ [][NextRace]_vars

----------------------------------------------------------------------------
\* Properties

\* The log entries written by request number n
LogsOf(n) == {i \in 1..Len(logs) : logs[i].req = n}

\* The artifacts inserted by request number n
ArtifactsOf(n) == {i \in 1..Len(diagrams) : diagrams[i].req = n}

Active == {r \in Reqs : rq[r].pc # "idle"}
Done == {r \in Reqs : rq[r].pc = "done"}

AllProviderCallsFailed(q) ==
  \A i \in 1..Len(q.outcomes) : q.outcomes[i] = "error"

\* The per-kind check of the extractor on a generated text
KindCheck(kind, code) ==
  CASE kind = "graphviz" -> HasGraphToken(code)
    [] kind = "mermaid_gantt" -> HasGanttToken(code)
    [] kind = "plantuml_wbs" -> StartsWbs(code) /\ EndsWbs(code)

\* C1: in live mode, for every kind, a client whose provider calls all fail
\* makes exactly 3 calls, sleeps 1s then 2s (not after the third failure),
\* then raises LLMError; no request ever makes a 4th call.
C1_AlwaysFailing ==
  \A r \in Active :
    LET q == rq[r]
    IN  /\ q.calls <= 3
        /\ (use_llm /\ AllProviderCallsFailed(q)) =>
             /\ Len(q.outcomes) = q.calls
             /\ (q.llm_result = "LLMError") = (q.calls = 3 /\ q.pc # "llm")
             /\ q.llm_result # "ok"
             /\ q.sleeps \in {<<>>, <<1>>, <<1, 2>>}
             /\ q.calls = 3 => q.sleeps = <<1, 2>>
             /\ Len(q.sleeps) \in {q.calls - 1, q.calls}

C1_Witness ==
  \E r \in Active :
    /\ use_llm /\ rq[r].kind = "mermaid_gantt"
    /\ rq[r].outcomes = <<"error", "error", "error">>
    /\ rq[r].llm_result = "LLMError"

\* C2: in live mode, a provider that fails on attempts 1 and 2 and answers
\* attempt 3 with extractable text makes the client return the code extracted
\* from attempt 3, after exactly 3 provider calls and 2 sleeps, without raising.
C2_ThirdAttemptSucceeds ==
  \A r \in Active :
    LET q == rq[r]
    IN  q.outcomes = <<"error", "error", "ok">> =>
          /\ q.llm_result = "ok"
          /\ q.calls = 3
          /\ q.sleeps = <<1, 2>>
          /\ q.code = Extract(q.kind, q.last_content).code
          /\ q.pc \notin {"llm", "backoff", "llm_failed"}

C2_Witness ==
  \E r \in Active :
    /\ rq[r].outcomes = <<"error", "error", "ok">>
    /\ rq[r].kind = "graphviz"
    /\ rq[r].code = <<"digraph", " ", "g", " ", "{", "a", "->", "b", ";", "}">>

\* C3: a non-empty response whose extraction fails is never followed by
\* another provider call of the same request.
C3_NoRetryAfterExtractionFailure ==
  \A r \in Active :
    \A i \in 1..Len(rq[r].outcomes) :
      rq[r].outcomes[i] = "unextractable" => i = Len(rq[r].outcomes)

\* C4: in fallback mode the client makes no provider call, never sleeps,
\* never raises, reports tokens_used = None and returns text that passes the
\* kind check.
C4_FallbackMode ==
  \A r \in Active :
    LET q == rq[r]
    IN  ~use_llm =>
          /\ q.calls = 0
          /\ q.sleeps = <<>>
          /\ q.llm_result # "LLMError"
          /\ q.pc \notin {"backoff", "llm_failed"}
          /\ q.llm_result = "ok" =>
               /\ q.tokens_used = None
               /\ KindCheck(q.kind, q.code)

C4_Witness ==
  \E r \in Active :
    /\ ~use_llm
    /\ rq[r].kind = "mermaid_gantt"
    /\ rq[r].llm_result = "ok"
    /\ rq[r].code # <<>>

\* C5: with caching enabled, a generate_diagram request that starts after an
\* earlier request with the same prompt, format and layout has succeeded and
\* persisted its artifact logs was_cached = TRUE with that artifact's id and
\* returns that id.
C5_SecondRequestReusesArtifact ==
  \A r \in Done :
    LET q == rq[r]
    IN  \A i \in 1..Len(diagrams) :
          LET d == diagrams[i]
          IN  ( /\ ENABLE_CACHE
                /\ q.kind = "graphviz"
                /\ d.req \in q.after
                /\ d.prompt = q.prompt /\ d.format = q.format /\ d.layout = q.layout )
              => /\ \E j \in LogsOf(q.no) :
                      /\ logs[j].was_cached
                      /\ logs[j].success
                      /\ logs[j].diagram_id = d.id
                 /\ q.status = "returned"
                 /\ q.result[3] = d.id

C5_Witness ==
  \E r \in Done :
    /\ ENABLE_CACHE
    /\ rq[r].no = 2
    /\ rq[r].status = "returned"
    /\ rq[r].cached # NoDiagram
    /\ rq[r].cached.req = 1
    /\ rq[r].result[3] = rq[r].cached.id

C7_LLMFailure ==
  \A r \in Done :
    LET q == rq[r]
    IN  (q.kind = "graphviz" /\ q.llm_result = "LLMError") =>
          /\ Cardinality(LogsOf(q.no)) = 1
          /\ \A i \in LogsOf(q.no) :
               ~logs[i].success /\ logs[i].error_type = "LLMError"
          /\ q.status = "raised" /\ q.error = "DiagramGenerationError"
          /\ q.renders = 0
          /\ q.inserted = 0 /\ ArtifactsOf(q.no) = {}

C7_Witness ==
  \E r \in Done :
    /\ rq[r].kind = "graphviz"
    /\ rq[r].llm_result = "LLMError"
    /\ rq[r].calls = 3
    /\ LogsOf(rq[r].no) # {}

\* C8: when the render stage of a non-cached generate_diagram request fails,
\* exactly one log entry is written for it, with success = FALSE, error_type
\* "RenderError" and the tokens_used and latency_ms of the LLM stage; the
\* caller gets DiagramGenerationError and no artifact is persisted.
C8_RenderFailure ==
  \A r \in Done :
    LET q == rq[r]
    IN  ( /\ q.kind = "graphviz" /\ q.cached = NoDiagram
          /\ q.render_result \in {"RenderError", "ValidationError"} ) =>
          /\ Cardinality(LogsOf(q.no)) = 1
          /\ \A i \in LogsOf(q.no) :
               /\ ~logs[i].success
               /\ logs[i].error_type = "RenderError"
               /\ logs[i].tokens_used = q.tokens_used
               /\ logs[i].latency_ms = q.llm_latency_ms
          /\ q.llm_latency_ms # None
          /\ q.status = "raised" /\ q.error = "DiagramGenerationError"
          /\ q.inserted = 0 /\ ArtifactsOf(q.no) = {}

C8_Witness ==
  \E r \in Done :
    /\ rq[r].kind = "graphviz" /\ rq[r].cached = NoDiagram
    /\ rq[r].render_result = "RenderError"
    /\ rq[r].tokens_used = 42
    /\ rq[r].llm_latency_ms = 3000
    /\ \E i \in LogsOf(rq[r].no) : logs[i].latency_ms = 3000

\* C9: if the artifact insert fails after a successful render, the request
\* still returns the image bytes and source code with artifact id None and
\* still writes the success log entry.
C9_PersistFailureSwallowed ==
  \A r \in Done :
    LET q == rq[r]
    IN  q.insert_result \in {"rejected", "flush_error"} =>
          /\ q.status = "returned"
          /\ q.result = <<q.image_bytes, q.code, None>>
          /\ \E i \in LogsOf(q.no) : logs[i].success /\ ~logs[i].was_cached

\* C10: every generate request of every kind that has ended, in success,
\* cache hit or failure, has written a log entry.
C10_EveryAttemptLogged ==
  \A r \in Done : LogsOf(rq[r].no) # {}

\* C11: every failure of a generate_diagram request that comes from the LLM,
\* extraction or render stage, the re-render of a cached artifact included,
\* reaches the caller as DiagramGenerationError.
C11_FailuresWrapped ==
  \A r \in Done :
    LET q == rq[r]
    IN  ( /\ q.op = "generate" /\ q.kind = "graphviz"
          /\ \/ q.llm_result = "LLMError"
             \/ q.render_result \in {"RenderError", "ValidationError"} ) =>
          /\ q.status = "raised"
          /\ q.error = "DiagramGenerationError"

\* C12: the step of a preview request, whether its render succeeds or fails,
\* leaves the artifact store and the generation log unchanged, calls the
\* render adapter once, and makes no LLM call and no cache lookup.
C12_PreviewFrame ==
  [][ \A r \in Reqs :
        rq[r].pc = "preview" =>
          /\ diagrams' = diagrams /\ logs' = logs /\ next_id' = next_id
          /\ rq'[r].pc = "done"
          /\ rq'[r].status \in {"returned", "raised"}
          /\ rq'[r].renders = 1
          /\ rq'[r].calls = 0 /\ rq'[r].cache_lookups = 0 /\ rq'[r].inserted = 0
    ]_vars

C12_Witness ==
  \E r \in Done :
    /\ rq[r].op = "preview"
    /\ rq[r].kind = "plantuml_wbs"
    /\ rq[r].status = "raised"
    /\ logs # <<>>

\* C14: a step that is not the retention sweep keeps every log entry in
\* place with its field values, and the sweep removes entries without
\* changing the ones it keeps.
C14_LogsImmutable ==
  [][ \/ /\ \E k \in 1..Len(logs) : delete_old(k)
         /\ \A i \in 1..Len(logs') : \E j \in 1..Len(logs) : logs'[i] = logs[j]
      \/ /\ Len(logs') >= Len(logs)
         /\ \A i \in 1..Len(logs) : logs'[i] = logs[i]
    ]_vars

C14_Witness ==
  \E r \in Done :
    /\ rq[r].op = "delete"
    /\ rq[r].status = "returned"
    /\ \E i \in 1..Len(logs) : logs[i].diagram_id = rq[r].result[1]

\* C19: a preview request whose code fails validation is answered with a
\* status of the 400 class.
C19_PreviewValidation400 ==
  \A r \in Done :
    (rq[r].op = "preview" /\ rq[r].render_result = "ValidationError") =>
      rq[r].http_status \in 400..499

\* C20: a graph preview whose DOT code the render adapter rejects or cannot
\* render is answered with HTTP status 500.
C20_PreviewFailure500 ==
  \A r \in Done :
    ( /\ rq[r].op = "preview" /\ rq[r].kind = "graphviz"
      /\ rq[r].render_result \in {"ValidationError", "RenderError"} ) =>
      /\ rq[r].status = "raised"
      /\ rq[r].http_status = 500

C20_Witness ==
  \E r \in Done :
    /\ rq[r].op = "preview" /\ rq[r].kind = "graphviz"
    /\ rq[r].code = <<"invalid", " ", "dot", " ", "code">>
    /\ rq[r].render_result = "ValidationError"
    /\ rq[r].http_status = 500

\* C13: the store takes an insert whatever it holds: every insert that
\* succeeded has added its own artifact, also when an artifact with the same
\* (prompt_hash, format, layout) is there; and with caching enabled a request
\* that missed the cache shares its fingerprint only with artifacts of
\* requests that had not ended when it started.
C13_NoUniqueFingerprint ==
  \A r \in Active :
    LET q == rq[r]
    IN  /\ q.insert_result = "ok" =>
             \E i \in ArtifactsOf(q.no) :
               /\ diagrams[i].id = q.diagram_id
               /\ diagrams[i].prompt_hash = hash_prompt(q.prompt, q.format, q.layout)
        /\ (ENABLE_CACHE /\ q.cache_lookups = 1 /\ q.cached = NoDiagram) =>
             \A i \in 1..Len(diagrams) :
               ( /\ diagrams[i].prompt_hash = hash_prompt(q.prompt, q.format, q.layout)
                 /\ diagrams[i].format = q.format
                 /\ diagrams[i].layout = q.layout ) =>
               diagrams[i].req \notin q.after \cup {0}

\* Two requests in flight together have both missed the cache, both called
\* the provider and both inserted: two artifacts with one fingerprint.
C13_Witness ==
  /\ ENABLE_CACHE
  /\ \E r1, r2 \in Active :
       /\ r1 # r2
       /\ rq[r1].prompt = rq[r2].prompt
       /\ \A r \in {r1, r2} :
            /\ rq[r].cache_lookups = 1 /\ rq[r].cached = NoDiagram
            /\ rq[r].calls = 1
            /\ rq[r].insert_result = "ok"
       /\ \E i \in ArtifactsOf(rq[r1].no), j \in ArtifactsOf(rq[r2].no) :
            /\ diagrams[i].id # diagrams[j].id
            /\ diagrams[i].prompt_hash = diagrams[j].prompt_hash
            /\ diagrams[i].format = diagrams[j].format
            /\ diagrams[i].layout = diagrams[j].layout

\* The function under test has returned.
Returned(name) == fn.phase = "ret" /\ fn.name = name

\* C15: two calls of hash_prompt give the same fingerprint whenever their
\* prompts agree after lower-casing and trimming and their formats and
\* layouts agree after lower-casing; in particular equal arguments give equal
\* fingerprints.
C15_HashOfNormalizedTriple ==
  Returned("hash_prompt") =>
    LET a == fn.args[1]
        b == fn.args[2]
    IN  ( /\ Strip(Lower(a.prompt)) = Strip(Lower(b.prompt))
          /\ LowerTok(a.format) = LowerTok(b.format)
          /\ LowerTok(a.layout) = LowerTok(b.layout) ) =>
        fn.ret[1] = fn.ret[2]

C15_Witness ==
  /\ Returned("hash_prompt")
  /\ fn.args[1].prompt = <<"Draw", " ", "flow">>
  /\ fn.args[2].prompt = <<" ", "draw", " ", "flow", "\n">>
  /\ fn.args[1].format = "SVG" /\ fn.args[2].format = "svg"
  /\ fn.args[1].layout = fn.args[2].layout
  /\ fn.ret[1] = fn.ret[2]

\* The interior <<first, last>> of the first fenced block of s, or <<>> when
\* s has none.  A block opens at a fence followed by an optional tag and by
\* whitespace up to a newline, and closes at a newline followed by a fence.
\* The opening ends at the first newline after the fence, or (open_late) at
\* the last newline of the whitespace after the fence that still has a
\* closing behind it.
FirstBlock(s, tags, open_late) ==
  LET a(i) == IF i + 1 <= Len(s) /\ s[i + 1] \in tags THEN i + 2 ELSE i + 1
      opens(i) == {j \in a(i)..Len(s) :
                     s[j] = "\n" /\ \A m \in a(i)..(j - 1) : IsSpace(s[m])}
      closes(j) == {k \in (j + 1)..(Len(s) - 1) : s[k] = "\n" /\ s[k + 1] = Fence}
      usable(i) == {j \in opens(i) : closes(j) # {}}
      starts == {i \in 1..Len(s) : s[i] = Fence /\ usable(i) # {}}
  IN  IF starts = {} THEN <<>>
      ELSE LET j == IF open_late THEN Max(usable(Min(starts)))
                    ELSE Min(usable(Min(starts)))
           IN  <<j + 1, Min(closes(j)) - 1>>

\* The text the extraction keeps: the trimmed interior of the first block,
\* else the trimmed text.
Chosen(s, tags, open_late) ==
  LET b == FirstBlock(s, tags, open_late)
  IN  IF b = <<>> THEN Strip(s) ELSE Strip(SubSeq(s, b[1], b[2]))

C17_WbsMarkers ==
  Returned("_extract_plantuml") =>
    LET chosen == Chosen(fn.args, {"plantuml"}, TRUE)
        has_start == chosen # <<>> /\ chosen[1] \in {"@startwbs", "@startuml"}
        has_end == chosen # <<>> /\ chosen[Len(chosen)] \in {"@endwbs", "@enduml"}
        code == fn.ret.code
    IN  /\ fn.ret.ok
        /\ code # <<>>
        /\ code[1] \in {"@startwbs", "@startuml"}
        /\ code[Len(code)] \in {"@endwbs", "@enduml"}
        /\ code = (IF has_start THEN <<>> ELSE <<"@startwbs", "\n">>) \o chosen
                    \o (IF has_end THEN <<>> ELSE <<"\n", "@endwbs">>)

C17_Witness ==
  /\ Returned("_extract_plantuml")
  /\ fn.args = <<"Here", "\n", Fence, "plantuml", "\n", "*", " ", "Root", "\n", Fence>>
  /\ fn.ret.code = <<"@startwbs", "\n", "*", " ", "Root", "\n", "@endwbs">>

\* C18: render_to_bytes raises ValidationError, without running the layout
\* engine, for a format outside {svg, png}, an engine outside the six layout
\* engines, DOT text of fewer than 10 characters after trimming ("too short"),
\* DOT text that does not start with graph, digraph, strict graph or strict
\* digraph, and DOT text with different counts of "{" and "}" ("Unbalanced
\* braces").
C18_RenderRejects ==
  Returned("render_to_bytes") =>
    LET d == Strip(fn.args.dot)
        bad_format == fn.args.fmt \notin {"svg", "png"}
        bad_engine == fn.args.engine \notin {"dot", "neato", "fdp", "sfdp", "twopi", "circo"}
        too_short == CharLen(d) < 10
        bad_start == ~StartsWithGraph(d)
        unbalanced == Count(d, "{") # Count(d, "}")
    IN  /\ (bad_format \/ bad_engine \/ too_short \/ bad_start \/ unbalanced) =>
             /\ fn.ret.error = "ValidationError"
             /\ ~fn.ret.engine_invoked
             /\ fn.ret.bytes = <<>>
        /\ (~bad_format /\ ~bad_engine /\ too_short) =>
             fn.ret.message = "DOT code too short"
        /\ (~bad_format /\ ~bad_engine /\ ~too_short /\ ~bad_start /\ unbalanced) =>
             fn.ret.message = "Unbalanced braces in DOT code"

C18_Witness ==
  /\ Returned("render_to_bytes")
  /\ fn.args.dot = <<"digraph", " ", "g", " ", "{", "{", "a", "}">>
  /\ fn.args.fmt = "png" /\ fn.args.engine = "circo"
  /\ fn.ret.error = "ValidationError"
  /\ fn.ret.message = "Unbalanced braces in DOT code"
  /\ ~fn.ret.engine_invoked

----------------------------------------------------------------------------
\* The stages of one generate_diagram request, told by what a step changes.

LookupStep(q, p) == p.cache_lookups > q.cache_lookups
LLMStep(q, p) == q.pc \in {"llm", "backoff"} /\ p # q
RenderStep(q, p) == p.renders > q.renders
InsertStep(q, p) == p.insert_result # q.insert_result
SuccessLogStep(q) ==
  /\ Len(logs') = Len(logs) + 1
  /\ logs'[Len(logs')].req = q.no
  /\ logs'[Len(logs')].success
  /\ ~logs'[Len(logs')].was_cached

\* C21: within one generate_diagram request the stages come in a fixed order:
\* every step of the LLM stage (fallback generation, provider call, backoff
\* sleep) is taken after the one cache lookup and before any render, insert
\* or log entry; the render of a request that missed the cache is called
\* after the LLM stage has produced the source; the insert is attempted after
\* the render has succeeded; and the success entry is appended after the
\* insert has been attempted.
C21_StageOrder ==
  [][\A r \in Reqs :
       LET q == rq[r]
           p == rq'[r]
       IN  (q.op = "generate" /\ q.kind = "graphviz" /\ p.no = q.no) =>
             /\ LookupStep(q, p) =>
                  q.calls = 0 /\ q.llm_result = "" /\ q.renders = 0
             /\ LLMStep(q, p) =>
                  /\ q.cache_lookups = 1
                  /\ q.renders = 0
                  /\ q.insert_result = ""
                  /\ LogsOf(q.no) = {}
             /\ (RenderStep(q, p) /\ q.cached = NoDiagram) =>
                  /\ q.llm_result = "ok"
                  /\ q.pc = "render"
                  /\ q.insert_result = ""
                  /\ LogsOf(q.no) = {}
             /\ InsertStep(q, p) =>
                  /\ q.render_result = "ok"
                  /\ q.renders = 1
                  /\ LogsOf(q.no) = {}
             /\ SuccessLogStep(q) =>
                  /\ q.render_result = "ok"
                  /\ q.save_to_db => q.insert_result # ""]_vars

\* A request went through all five stages: two provider calls, a render, an
\* insert and the success entry.
C21_Witness ==
  \E r \in Done :
    LET q == rq[r]
    IN  /\ q.op = "generate"
        /\ q.kind = "graphviz"
        /\ q.status = "returned"
        /\ q.cache_lookups = 1
        /\ q.calls = 2
        /\ q.renders = 1
        /\ q.inserted = 1
        /\ \E i \in LogsOf(q.no) : logs[i].success /\ logs[i].diagram_id = q.diagram_id

----------------------------------------------------------------------------
\* C22: a generate or preview request of any kind calls the render adapter at
\* most once, and a failed render ends the request: after it the request
\* makes no further render and no further provider call, and it ends by
\* raising.
C22_RenderAtMostOnce ==
  [][\A r \in Reqs :
       LET q == rq[r]
           p == rq'[r]
           failed(x) == x.render_result \in {"ValidationError", "RenderError"}
       IN  (p.op \in {"generate", "preview"}) =>
             /\ p.renders <= 1
             /\ failed(p) =>
                  /\ p.renders = 1
                  /\ p.pc \in {"render_failed", "done"}
                  /\ p.pc = "done" => p.status = "raised"
             /\ (failed(q) /\ p.no = q.no) =>
                  /\ p.renders = q.renders
                  /\ p.calls = q.calls
                  /\ p.sleeps = q.sleeps
                  /\ p.render_result = q.render_result]_vars

\* A generate request whose render failed after a provider call has ended,
\* with that one render.
C22_Witness ==
  \E r \in Done :
    LET q == rq[r]
    IN  /\ q.op = "generate"
        /\ q.calls >= 1
        /\ q.render_result = "RenderError"
        /\ q.renders = 1
        /\ q.status = "raised"

----------------------------------------------------------------------------
\* The artifacts a lookup for request q can match
Matches(q) ==
  {i \in 1..Len(diagrams) :
     /\ diagrams[i].prompt_hash = hash_prompt(q.prompt, q.format, q.layout)
     /\ diagrams[i].format = q.format
     /\ diagrams[i].layout = q.layout}

\* C23: the cache check of generate_diagram is a hit exactly when caching is
\* enabled and the store holds an artifact whose prompt_hash, format and
\* layout equal the request's, and the hit is such an artifact; with caching
\* disabled the store is not queried and the request goes to the LLM stage.
C23_CacheHitExactly ==
  [][\A r \in Reqs :
       LET q == rq[r]
           p == rq'[r]
           hit == p.cached # NoDiagram
       IN  LookupStep(q, p) =>
             /\ hit <=> (ENABLE_CACHE /\ Matches(q) # {})
             /\ hit => (\E i \in Matches(q) : p.cached = diagrams[i]) /\ p.pc = "log_hit"
             /\ ~hit => p.pc = "llm"
             /\ p.store_lookups = IF ENABLE_CACHE THEN 1 ELSE 0
             /\ ~ENABLE_CACHE => p.pc = "llm" /\ p.store_lookups = 0]_vars

\* With caching enabled, a second request has found the artifact of the first
\* while the store also holds an artifact of another fingerprint.
C23_Witness ==
  \E r \in Reqs :
    LET q == rq[r]
    IN  /\ q.pc = "log_hit"
        /\ q.store_lookups = 1
        /\ q.cached.req = 1
        /\ Len(diagrams) = 2
        /\ Matches(q) = {2}

----------------------------------------------------------------------------
\* C24: every generate request reaches a terminal state, having made at most
\* 3 provider calls, slept at most 2 times and called the render adapter at
\* most once.  One request being in flight at a time, the request that ends
\* is the one that was in flight.
C24_Terminates ==
  /\ [](\A r \in Reqs :
          rq[r].op = "generate" =>
            /\ rq[r].calls <= 3
            /\ Len(rq[r].sleeps) <= 2
            /\ rq[r].renders <= 1)
  /\ (\E r \in Reqs : rq[r].op = "generate" /\ rq[r].pc # "done")
       ~> (\E r \in Reqs : rq[r].op = "generate" /\ rq[r].pc = "done")

\* A generate_diagram request has ended after 3 provider calls and 2 sleeps.
C24_Witness ==
  \E r \in Done :
    /\ rq[r].op = "generate"
    /\ rq[r].kind = "graphviz"
    /\ rq[r].calls = 3
    /\ Len(rq[r].sleeps) = 2
    /\ rq[r].renders = 1

----------------------------------------------------------------------------
\* C25: a generate_diagram request that missed the cache and returns has
\* appended exactly one log entry, a success entry, and inserted at most one
\* artifact; the diagram_id of that entry is the id the request returns: the
\* id of the artifact it inserted, or None when save_to_db is false or the
\* insert failed.
C25_OneLogOneArtifact ==
  \A r \in Done :
    LET q == rq[r]
    IN  (/\ q.op = "generate"
         /\ q.kind = "graphviz"
         /\ q.cached = NoDiagram
         /\ q.status = "returned") =>
          /\ Cardinality(LogsOf(q.no)) = 1
          /\ \A i \in LogsOf(q.no) :
               /\ logs[i].success
               /\ ~logs[i].was_cached
               /\ logs[i].diagram_id = q.result[3]
          /\ Cardinality(ArtifactsOf(q.no)) <= 1
          /\ \A i \in ArtifactsOf(q.no) : diagrams[i].id = q.result[3]
          /\ ArtifactsOf(q.no) = {} => q.result[3] = None
          /\ (~q.save_to_db \/ q.insert_result = "rejected") => ArtifactsOf(q.no) = {}
          /\ (q.save_to_db /\ q.insert_result = "ok") => ArtifactsOf(q.no) # {}

\* A request with save_to_db false has returned None as the id, after an
\* earlier request returned the id of the artifact it inserted.
C25_Witness ==
  \E r \in Done :
    LET q == rq[r]
    IN  /\ q.op = "generate"
        /\ q.cached = NoDiagram
        /\ q.status = "returned"
        /\ ~q.save_to_db
        /\ q.result[3] = None
        /\ \E i \in LogsOf(q.no) : logs[i].success /\ logs[i].diagram_id = None
        /\ \E i \in 1..Len(logs), j \in 1..Len(diagrams) :
             /\ logs[i].req # q.no
             /\ logs[i].success
             /\ ~logs[i].was_cached
             /\ diagrams[j].req = logs[i].req
             /\ logs[i].diagram_id = diagrams[j].id

----------------------------------------------------------------------------
\* C26: a generate_diagram request that has appended a success entry, for a
\* cache hit or not, ends by returning an image, never by raising.
C26_SuccessLogOnlyOnReturn ==
  \A r \in Done :
    LET q == rq[r]
    IN  (/\ q.op = "generate"
         /\ q.kind = "graphviz"
         /\ \E i \in LogsOf(q.no) : logs[i].success) =>
          /\ q.status = "returned"
          /\ q.result # <<>>

----------------------------------------------------------------------------
\* C27: every artifact inserted by generate_diagram was inserted after its
\* source had rendered successfully and carries, in image_data, the base64
\* encoding of exactly the bytes rendered; the request that inserted it
\* returns those bytes, that source and its id, and so does every later
\* request that hits it in the cache, without calling the render adapter.
C27_StoredImageIsRendered ==
  /\ \A i \in 1..Len(diagrams) :
       diagrams[i].req # 0 =>
         /\ diagrams[i].image_data # NoImage
         /\ b64decode(diagrams[i].image_data) = Image(diagrams[i].dot_code, diagrams[i].format)
  /\ \A r \in Reqs :
       LET q == rq[r]
       IN  /\ q.inserted > 0 =>
                /\ q.render_result = "ok"
                /\ \E i \in ArtifactsOf(q.no) :
                     /\ diagrams[i].id = q.diagram_id
                     /\ diagrams[i].dot_code = q.code
                     /\ diagrams[i].image_data = b64encode(q.image_bytes)
                     /\ b64decode(diagrams[i].image_data) = q.image_bytes
                     /\ (q.pc = "done" /\ q.status = "returned") =>
                          q.result = <<b64decode(diagrams[i].image_data),
                                       diagrams[i].dot_code, diagrams[i].id>>
           /\ (q.pc = "done" /\ q.cached # NoDiagram /\ q.cached.req # 0) =>
                /\ q.status = "returned"
                /\ q.renders = 0
                /\ q.calls = 0
                /\ q.result = <<b64decode(q.cached.image_data),
                                q.cached.dot_code, q.cached.id>>
                /\ \E i \in ArtifactsOf(q.cached.req) : diagrams[i] = q.cached

\* A request has hit the artifact that the first request inserted and has
\* returned its stored image.
C27_Witness ==
  \E r \in Done :
    LET q == rq[r]
    IN  /\ q.cached # NoDiagram
        /\ q.cached.req = 1
        /\ q.no = 2
        /\ q.status = "returned"
        /\ q.renders = 0
        /\ q.result[1] = Image(q.cached.dot_code, q.format)

----------------------------------------------------------------------------
\* The artifacts persisted by earlier generate_diagram requests whose
\* fingerprint is that of request q
SameFingerprint(q) ==
  {i \in 1..Len(diagrams) :
     /\ diagrams[i].req # 0
     /\ diagrams[i].prompt_hash = hash_prompt(q.prompt, q.format, q.layout)}

----------------------------------------------------------------------------
----------------------------------------------------------------------------
\* The failure entries of request number n in a log table
FailureRows(table, n) ==
  {i \in 1..Len(table) : table[i].req = n /\ ~table[i].success}

\* C30: when generate_diagram raises DiagramGenerationError, its failure
\* entry is in the store and committed, and the entry is still there,
\* unchanged, once the request's session has been rolled back.
C30_FailureLogSurvivesRollback ==
  [][\A r \in Reqs :
       LET q == rq[r]
           p == rq'[r]
           failed(x) == /\ x.op = "generate"
                        /\ x.kind = "graphviz"
                        /\ x.pc = "done"
                        /\ x.error = "DiagramGenerationError"
       IN  /\ (failed(p) /\ q.pc # "done") =>
                /\ FailureRows(logs', p.no) # {}
                /\ \A i \in FailureRows(logs', p.no) : logs'[i].committed
           /\ (failed(q) /\ p.pc = "idle") =>
                /\ FailureRows(logs', q.no) # {}
                /\ \A i \in FailureRows(logs, q.no) :
                     \E j \in FailureRows(logs', q.no) : logs'[j] = logs[i]]_vars

\* A request that failed in the LLM stage has ended, its session is gone and
\* its failure entry is in the store.
C30_Witness ==
  /\ \A r \in Reqs : rq[r].pc = "idle"
  /\ \E n \in finished :
       \E i \in FailureRows(logs, n) :
         logs[i].error_type = "LLMError" /\ logs[i].committed

====
